---- MODULE Spec2Model ----
(***************************************************************************)
(* Model of the vehicle-check Telegram bot (src/bot.py): the identifier    *)
(* validators, the three provider clients (GIBDD registration history,     *)
(* NSIS insurance, EAISTO inspection), process_query and the               *)
(* handle_message menu dispatcher working on one user's user_data.         *)
(*                                                                         *)
(* A text is a sequence of characters.  A character is a one-entry string  *)
(* naming it: ASCII characters stand for themselves, "cyr_A" is the        *)
(* Cyrillic capital A, "sz" is U+00DF (the German sharp s), "TAB" is the   *)
(* tabulator.                                                              *)
(***************************************************************************)
EXTENDS Integers, Sequences, FiniteSets, TLC

VARIABLES
    user_data,      \* context.user_data: a dict, here a function on its keys
    pc,             \* position of the user's handler task
    text,           \* update.message.text of the update being handled
    user_input,     \* process_query: update.message.text.strip()
    query_type,     \* process_query: context.user_data.get('mode')
    param_idx,      \* make_*_request_advanced: index into param_variants
    gibdd_result,   \* process_query: text block of the GIBDD client
    nsis_result,    \* process_query: text block of the NSIS client
    eaisto_result,  \* process_query: text block of the EAISTO client
    httpCount,      \* requests.get calls issued per provider for this update
    invoked,        \* provider clients called for this update
    lastResp,       \* per provider: what its last requests.get produced
    requested,      \* per provider: the query put into its last request URL
    sent,           \* messages handed to reply_text for this update
    event,          \* how the handling of the last update ended
    mode_before,    \* user_data.get('mode') when the last update arrived
    checked,        \* validator run on text: "none", "vin" or "plate"
    verdict,        \* the validator's return value
    env,            \* os.getenv of each credential when the process starts
    phase           \* how far the start of the process has come

vars == <<user_data, pc, text, user_input, query_type, param_idx, gibdd_result,
          nsis_result, eaisto_result, httpCount, invoked, lastResp, requested,
          sent, event, mode_before, checked, verdict, env, phase>>

-----------------------------------------------------------------------------
(* Bounds of the model *)

\* longest run of one character in a generated validator input
MaxRun == 18
\* longest run of the second character of a generated validator input
MaxTail == 2
\* most whitespace put before and after a generated validator input
MaxPad == 1

-----------------------------------------------------------------------------
(* Characters and Python's str methods *)

UpperLatin == {"A", "B", "C", "E", "G", "R", "S", "T", "X", "Z"}
LowerLatin == {"a", "b", "t", "x"}
Digits == {"0", "1", "2", "3", "4", "5", "6", "7", "8", "9"}
CyrUpper == {"cyr_A", "cyr_B", "cyr_V"}
CyrLower == {"cyr_a"}

\* str.isalnum of one character: letters and digits of any alphabet
isalnum(c) == c \in UpperLatin \cup LowerLatin \cup Digits \cup CyrUpper \cup CyrLower \cup {"sz"}

\* the characters str.strip() removes
isspace(c) == c \in {" ", "TAB"}

\* str.upper of one character; U+00DF has no one-character upper case
upper_char(c) ==
    CASE c = "a" -> <<"A">>
      [] c = "b" -> <<"B">>
      [] c = "t" -> <<"T">>
      [] c = "x" -> <<"X">>
      [] c = "cyr_a" -> <<"cyr_A">>
      [] c = "sz" -> <<"S", "S">>
      [] OTHER -> <<c>>

RECURSIVE str_upper(_)
str_upper(s) == IF s = <<>> THEN <<>> ELSE upper_char(Head(s)) \o str_upper(Tail(s))

RECURSIVE str_lstrip(_)
str_lstrip(s) == IF s # <<>> /\ isspace(Head(s)) THEN str_lstrip(Tail(s)) ELSE s

RECURSIVE str_rstrip(_)
str_rstrip(s) ==
    IF s # <<>> /\ isspace(s[Len(s)]) THEN str_rstrip(SubSeq(s, 1, Len(s) - 1)) ELSE s

str_strip(s) == str_rstrip(str_lstrip(s))

\* s.replace(c, '')
RECURSIVE str_remove(_, _)
str_remove(s, c) ==
    IF s = <<>> THEN <<>>
    ELSE (IF Head(s) = c THEN <<>> ELSE <<Head(s)>>) \o str_remove(Tail(s), c)

all_isalnum(s) == \A i \in 1..Len(s) : isalnum(s[i])

-----------------------------------------------------------------------------
(* Validators *)

VinLength == 17
PlateMinLength == 7
PlateMaxLength == 9

validate_vin(vin) ==
    LET v == str_strip(str_upper(vin))
    IN  Len(v) = VinLength

validate_license_plate(plate) ==
    LET p == str_remove(str_remove(str_upper(plate), " "), "-")
    IN  IF PlateMinLength <= Len(p) /\ Len(p) <= PlateMaxLength
        THEN all_isalnum(p)
        ELSE FALSE

-----------------------------------------------------------------------------
(* Validator inputs: padding, a run of one character, a run of another *)

Rep(c, n) == [i \in 1..n |-> c]

InputChars == {"A", "a", "1", "sz", "cyr_A", " ", "-", "!"}

ValidatorInputs ==
    { Rep(" ", l) \o Rep(c1, n1) \o Rep(c2, n2) \o Rep(" ", t) :
        l \in 0..MaxPad, t \in 0..MaxPad, c1 \in InputChars, n1 \in 0..MaxRun,
        c2 \in InputChars, n2 \in 0..MaxTail }

-----------------------------------------------------------------------------
(* context.user_data *)

EmptyDict == [k \in {} |-> "None"]

\* a clear() that removes nothing
clear_nothing(d) == d

\* dict.clear()
clear(d) == EmptyDict

\* dict.get(k): None when the key is absent
get(d, k) == IF k \in DOMAIN d THEN d[k] ELSE "None"

\* d[k] = v
setitem(d, k, v) == [x \in DOMAIN d \cup {k} |-> IF x = k THEN v ELSE d[x]]

-----------------------------------------------------------------------------
(* Button captions and the texts a user sends.  A caption is kept as one   *)
(* glyph: the captions of the source start with an emoji and are matched   *)
(* by equality before any validator sees them.                             *)

BackCaption == <<"BTN_BACK">>
PlateCaption == <<"BTN_REGNUM">>
VinCaption == <<"BTN_VIN">>
AboutCaption == <<"BTN_ABOUT">>

Captions == {BackCaption, PlateCaption, VinCaption, AboutCaption}

\* Z94CB41AAGR323020
VinText == <<"Z", "9", "4", "C", "B", "4", "1", "A", "A", "G", "R", "3", "2", "3", "0", "2", "0">>
\* " xta111930b0134057 "
VinLowerPaddedText ==
    <<" ", "x", "t", "a", "1", "1", "1", "9", "3", "0", "b", "0", "1", "3", "4", "0", "5", "7", " ">>
\* XTA111930B013405, one character short
VinShortText == <<"X", "T", "A", "1", "1", "1", "9", "3", "0", "B", "0", "1", "3", "4", "0", "5">>
\* U+00DF followed by 15 digits: 16 characters
SharpSText == <<"sz">> \o Rep("1", 15)
\* B908EE35
PlateText == <<"B", "9", "0", "8", "E", "E", "3", "5">>
\* A123BV777 in Cyrillic letters
PlateCyrText == <<"cyr_A", "1", "2", "3", "cyr_B", "cyr_V", "7", "7", "7">>
\* "B 908-EE 35"
PlateSpacedText == <<"B", " ", "9", "0", "8", "-", "E", "E", " ", "3", "5">>
\* "ab!"
JunkText == <<"a", "b", "!">>

Texts == Captions \cup {VinText, VinLowerPaddedText, VinShortText, SharpSText,
                        PlateText, PlateCyrText, PlateSpacedText, JunkText}

-----------------------------------------------------------------------------
(* What one requests.get call produces: an exception, or a response with a *)
(* status code and a body.  Bodies: "notjson" does not parse, "notdict"    *)
(* parses to something without .get, "fail" and "fail_msg" are JSON        *)
(* objects without success (the second carries an error text), "ok_empty"  *)
(* signals success without the payload, "ok_a" signals success with it.    *)

Providers == {"gibdd", "nsis", "eaisto"}

HttpBodies == {"notjson", "notdict", "fail", "fail_msg", "ok_empty", "ok_a"}
HttpStatuses == {200, 400}

\* the bodies that come with an error status
ErrorBodies == {"notjson", "fail_msg"}

HttpOutcomes ==
    { [exc |-> e, status |-> 0, body |-> "none"] : e \in {"Timeout", "ConnectionError"} }
    \cup [exc : {"none"}, status : {200}, body : HttpBodies]
    \cup [exc : {"none"}, status : HttpStatuses \ {200}, body : ErrorBodies]

NoResponse == [exc |-> "none", status |-> 0, body |-> "none"]

-----------------------------------------------------------------------------
(* Provider clients.  A client returns a text block, here a record of the  *)
(* provider, the kind of line and the data shown in it.  Kinds:            *)
(*   success         the bulleted field list                               *)
(*   bad_format      "Неверный формат ответа от сервера"                   *)
(*   upstream_error  the upstream's error text, or "Данные не найдены"     *)
(*   no_policies     "Полисы не найдены"                                   *)
(*   no_cards        "Действующих диагностических карт не найдено"         *)
(*   timeout         "Таймаут запроса"                                     *)
(*   connection      "Ошибка соединения"                                   *)
(*   request_error   "Ошибка запроса"                                      *)
(*   plate_failed    "Не удалось получить данные по гос.номеру"            *)
(* "exception" stands for a call left by an exception, "continue" for a    *)
(* loop iteration that returns nothing.                                    *)

Block(p, k, d) == [provider |-> p, kind |-> k, data |-> d]
NoBlock == Block("none", "none", "none")
Raised(p) == Block(p, "exception", "none")
Continue(p) == Block(p, "continue", "none")

\* the fields rendered from a success body: absent ones fall back to "Н/Д"
Fields(body) == IF body = "ok_a" THEN "fields_a" ELSE "defaults"

\* make_nsis_request with its last except clause left out
make_nsis_request_no_catch_all(o) ==
    IF o.exc = "Timeout" THEN Block("nsis", "timeout", "none")
    ELSE IF o.exc = "ConnectionError" THEN Raised("nsis")
    ELSE IF o.body = "notjson" THEN Block("nsis", "bad_format", "none")
    ELSE IF o.body = "notdict" THEN Raised("nsis")
    ELSE IF o.body = "ok_a" THEN Block("nsis", "success", Fields(o.body))
    ELSE IF o.body = "ok_empty" THEN Block("nsis", "no_policies", "none")
    ELSE Block("nsis", "upstream_error", IF o.body = "fail_msg" THEN "error_text" ELSE "default")

make_gibdd_request(o) ==
    IF o.exc = "Timeout" THEN Block("gibdd", "timeout", "none")
    ELSE IF o.exc = "ConnectionError" THEN Block("gibdd", "connection", "none")
    ELSE IF o.body = "notjson" THEN Block("gibdd", "bad_format", "none")
    ELSE IF o.body = "notdict" THEN Block("gibdd", "request_error", "none")
    ELSE IF o.body \in {"ok_a", "ok_empty"} THEN Block("gibdd", "success", Fields(o.body))
    ELSE Block("gibdd", "upstream_error", IF o.body = "fail_msg" THEN "error_text" ELSE "default")

make_nsis_request(o) ==
    IF o.exc = "Timeout" THEN Block("nsis", "timeout", "none")
    ELSE IF o.exc = "ConnectionError" THEN Block("nsis", "request_error", "none")
    ELSE IF o.body = "notjson" THEN Block("nsis", "bad_format", "none")
    ELSE IF o.body = "notdict" THEN Block("nsis", "request_error", "none")
    ELSE IF o.body = "ok_a" THEN Block("nsis", "success", Fields(o.body))
    ELSE IF o.body = "ok_empty" THEN Block("nsis", "no_policies", "none")
    ELSE Block("nsis", "upstream_error", IF o.body = "fail_msg" THEN "error_text" ELSE "default")

make_eaisto_request(o) ==
    IF o.exc = "Timeout" THEN Block("eaisto", "timeout", "none")
    ELSE IF o.exc = "ConnectionError" THEN Block("eaisto", "request_error", "none")
    ELSE IF o.body = "notjson" THEN Block("eaisto", "bad_format", "none")
    ELSE IF o.body = "notdict" THEN Block("eaisto", "request_error", "none")
    ELSE IF o.body = "ok_a" THEN Block("eaisto", "success", Fields(o.body))
    ELSE Block("eaisto", "no_cards", "none")

\* param_variants with no entry
param_variants_none == <<>>

\* param_variants with one more entry
param_variants_six == <<"regnum", "reg_number", "number", "plate", "license_plate", "gosnomer">>

param_variants == <<"regnum", "reg_number", "number", "plate", "license_plate">>

\* the number of entries of param_variants
PlateAttempts == 5

\* one iteration of the loop of make_gibdd_request_advanced
gibdd_advanced_attempt(o) ==
    IF o.exc # "none" THEN Block("gibdd", "request_error", "none")
    ELSE IF o.status = 200 THEN
        IF o.body = "notjson" THEN Continue("gibdd")
        ELSE IF o.body = "notdict" THEN Block("gibdd", "request_error", "none")
        ELSE IF o.body \in {"ok_a", "ok_empty"} THEN Block("gibdd", "success", Fields(o.body))
        ELSE Continue("gibdd")
    ELSE Continue("gibdd")

\* one iteration of the loop of make_nsis_request_advanced
nsis_advanced_attempt(o) ==
    IF o.exc # "none" THEN Block("nsis", "request_error", "none")
    ELSE IF o.status = 200 THEN
        IF o.body = "notjson" THEN Continue("nsis")
        ELSE IF o.body = "notdict" THEN Block("nsis", "request_error", "none")
        ELSE IF o.body = "ok_a" THEN Block("nsis", "success", Fields(o.body))
        ELSE Continue("nsis")
    ELSE Continue("nsis")

-----------------------------------------------------------------------------
(* handle_message and process_query *)

Message(k, b, kb) == [kind |-> k, blocks |-> b, keyboard |-> kb]

NoCalls == [p \in Providers |-> 0]
NoResponses == [p \in Providers |-> NoResponse]
NoQueries == [p \in Providers |-> <<>>]

\* handle_message with the mode test moved in front of the caption tests
handle_message_mode_first(t, d) ==
    IF get(d, "mode") # "None" THEN "query"
    ELSE IF t = BackCaption THEN "back"
    ELSE IF t = PlateCaption THEN "regnum"
    ELSE IF t = VinCaption THEN "vin"
    ELSE IF t = AboutCaption THEN "about"
    ELSE "hint"

\* the if/elif chain of handle_message: the branch taken for text t
handle_message_branch(t, d) ==
    IF t = BackCaption THEN "back"
    ELSE IF t = PlateCaption THEN "regnum"
    ELSE IF t = VinCaption THEN "vin"
    ELSE IF t = AboutCaption THEN "about"
    ELSE IF get(d, "mode") # "None" THEN "query"
    ELSE "hint"

\* the validation of process_query with the plate branch left out
process_query_validation_vin_only(qt, input) ==
    IF qt = "vin" /\ ~validate_vin(input) THEN "vin_format_error" ELSE "ok"

\* the validation at the head of process_query: the error replied, or "ok"
process_query_validation(qt, input) ==
    IF qt = "vin" /\ ~validate_vin(input) THEN "vin_format_error"
    ELSE IF qt = "regnum" /\ ~validate_license_plate(input) THEN "plate_format_error"
    ELSE "ok"

Credentials == {"BOT_TOKEN", "GIBDD_API_KEY", "NSIS_API_KEY", "EAISTO_API_KEY"}

\* what os.getenv returns: None for an unset variable, else its value
EnvValues == {"None", "", "value"}

\* Python's truth value of an os.getenv result
truthy(v) == v \notin {"None", ""}

AllSet == [c \in Credentials |-> "value"]

\* Config.validate: the exception it raises, or "ok"
Config_validate(e) ==
    LET required_vars == {"BOT_TOKEN", "GIBDD_API_KEY", "NSIS_API_KEY", "EAISTO_API_KEY"}
        missing == { var \in required_vars : ~truthy(e[var]) }
    IN  IF missing # {} THEN "ValueError" ELSE "ok"

Init ==
    /\ user_data = EmptyDict
    /\ pc = "idle"
    /\ text = <<>>
    /\ user_input = <<>>
    /\ query_type = "None"
    /\ param_idx = 1
    /\ gibdd_result = NoBlock
    /\ nsis_result = NoBlock
    /\ eaisto_result = NoBlock
    /\ httpCount = NoCalls
    /\ invoked = {}
    /\ lastResp = NoResponses
    /\ requested = NoQueries
    /\ sent = <<>>
    /\ event = "none"
    /\ mode_before = "None"
    /\ checked = "none"
    /\ verdict = FALSE
    /\ env = AllSet
    /\ phase = "polling"

\* a new update arrives: nothing has been called or computed for it yet
Receive(t) ==
    /\ phase = "polling"
    /\ pc = "idle"
    /\ text' = t
    /\ param_idx' = 1
    /\ gibdd_result' = NoBlock
    /\ nsis_result' = NoBlock
    /\ eaisto_result' = NoBlock
    /\ httpCount' = NoCalls
    /\ invoked' = {}
    /\ lastResp' = NoResponses
    /\ requested' = NoQueries
    /\ mode_before' = get(user_data, "mode")
    /\ UNCHANGED <<checked, verdict, env, phase>>

\* an update handled by one of the menu branches, which never reach process_query
Menu(t, ud, msg, ev) ==
    /\ Receive(t)
    /\ user_data' = ud
    /\ user_input' = <<>>
    /\ query_type' = "None"
    /\ sent' = <<Message(msg, <<>>, IF ev \in {"regnum", "vin"} THEN "back" ELSE "main")>>
    /\ event' = ev
    /\ pc' = "idle"

HandleBack ==
    \E t \in Texts :
        /\ handle_message_branch(t, user_data) = "back"
        /\ Menu(t, clear(user_data), "welcome", "back")

HandleSelectPlate ==
    \E t \in Texts :
        /\ handle_message_branch(t, user_data) = "regnum"
        /\ Menu(t, setitem(user_data, "mode", "regnum"), "enter_plate", "regnum")

HandleSelectVin ==
    \E t \in Texts :
        /\ handle_message_branch(t, user_data) = "vin"
        /\ Menu(t, setitem(user_data, "mode", "vin"), "enter_vin", "vin")

HandleAbout ==
    \E t \in Texts :
        /\ handle_message_branch(t, user_data) = "about"
        /\ Menu(t, user_data, "about", "about")

HandleHint ==
    \E t \in Texts :
        /\ handle_message_branch(t, user_data) = "hint"
        /\ Menu(t, user_data, "use_buttons", "hint")

\* process_query returning after its validation reply
ProcessQueryRejected ==
    \E t \in Texts :
        LET ui == str_strip(t)
            qt == get(user_data, "mode")
            v == process_query_validation(qt, ui)
        IN  /\ handle_message_branch(t, user_data) = "query"
            /\ v # "ok"
            /\ Receive(t)
            /\ user_input' = ui
            /\ query_type' = qt
            /\ sent' = <<Message(v, <<>>, "back")>>
            /\ event' = "rejected"
            /\ pc' = "idle"
            /\ UNCHANGED user_data

\* process_query passing validation and sending the progress message; a
\* reply_text that raises here leaves the handler
ProcessQueryBegin ==
    \E t \in Texts, delivered \in BOOLEAN :
        LET ui == str_strip(t)
            qt == get(user_data, "mode")
        IN  /\ handle_message_branch(t, user_data) = "query"
            /\ process_query_validation(qt, ui) = "ok"
            /\ Receive(t)
            /\ user_input' = ui
            /\ query_type' = qt
            /\ sent' = <<Message("progress", <<>>, "back")>>
            /\ event' = IF delivered THEN "processing" ELSE "aborted"
            /\ pc' = IF delivered THEN "gibdd" ELSE "idle"
            /\ UNCHANGED user_data

\* one requests.get of provider p answered by o
Http(p, o) ==
    /\ invoked' = invoked \cup {p}
    /\ httpCount' = [httpCount EXCEPT ![p] = @ + 1]
    /\ lastResp' = [lastResp EXCEPT ![p] = o]
    /\ requested' = [requested EXCEPT ![p] = user_input]

Frame == UNCHANGED <<user_data, text, user_input, query_type, sent, event, mode_before,
                    checked, verdict, env, phase>>

\* gibdd_result = await make_gibdd_request(user_input, query_type)
GibddBase ==
    /\ pc = "gibdd"
    /\ query_type = "vin"
    /\ \E o \in HttpOutcomes :
        LET r == make_gibdd_request(o)
        IN  /\ Http("gibdd", o)
            /\ gibdd_result' = IF r.kind = "exception" THEN gibdd_result ELSE r
            /\ pc' = IF r.kind = "exception" THEN "except" ELSE "nsis"
    /\ UNCHANGED <<param_idx, nsis_result, eaisto_result>>
    /\ Frame

\* one iteration of the loop of make_gibdd_request_advanced
GibddAdvancedAttempt ==
    /\ pc = "gibdd"
    /\ query_type # "vin"
    /\ param_idx <= Len(param_variants)
    /\ \E o \in HttpOutcomes :
        LET r == gibdd_advanced_attempt(o)
        IN  /\ Http("gibdd", o)
            /\ gibdd_result' = IF r.kind \in {"exception", "continue"} THEN gibdd_result ELSE r
            /\ param_idx' = IF r.kind = "continue" THEN param_idx + 1 ELSE 1
            /\ pc' = CASE r.kind = "continue" -> "gibdd"
                       [] r.kind = "exception" -> "except"
                       [] OTHER -> "nsis"
    /\ UNCHANGED <<nsis_result, eaisto_result>>
    /\ Frame

\* make_gibdd_request_advanced after its loop
GibddAdvancedExhausted ==
    /\ pc = "gibdd"
    /\ query_type # "vin"
    /\ param_idx > Len(param_variants)
    /\ invoked' = invoked \cup {"gibdd"}
    /\ gibdd_result' = Block("gibdd", "plate_failed", "none")
    /\ param_idx' = 1
    /\ pc' = "nsis"
    /\ UNCHANGED <<httpCount, lastResp, requested, nsis_result, eaisto_result>>
    /\ Frame

\* nsis_result = await make_nsis_request(user_input, query_type)
NsisBase ==
    /\ pc = "nsis"
    /\ query_type = "vin"
    /\ \E o \in HttpOutcomes :
        LET r == make_nsis_request(o)
        IN  /\ Http("nsis", o)
            /\ nsis_result' = IF r.kind = "exception" THEN nsis_result ELSE r
            /\ pc' = IF r.kind = "exception" THEN "except" ELSE "eaisto"
    /\ UNCHANGED <<param_idx, gibdd_result, eaisto_result>>
    /\ Frame

\* one iteration of the loop of make_nsis_request_advanced
NsisAdvancedAttempt ==
    /\ pc = "nsis"
    /\ query_type # "vin"
    /\ param_idx <= Len(param_variants)
    /\ \E o \in HttpOutcomes :
        LET r == nsis_advanced_attempt(o)
        IN  /\ Http("nsis", o)
            /\ nsis_result' = IF r.kind \in {"exception", "continue"} THEN nsis_result ELSE r
            /\ param_idx' = IF r.kind = "continue" THEN param_idx + 1 ELSE 1
            /\ pc' = CASE r.kind = "continue" -> "nsis"
                       [] r.kind = "exception" -> "except"
                       [] OTHER -> "eaisto"
    /\ UNCHANGED <<gibdd_result, eaisto_result>>
    /\ Frame

\* make_nsis_request_advanced after its loop
NsisAdvancedExhausted ==
    /\ pc = "nsis"
    /\ query_type # "vin"
    /\ param_idx > Len(param_variants)
    /\ invoked' = invoked \cup {"nsis"}
    /\ nsis_result' = Block("nsis", "plate_failed", "none")
    /\ param_idx' = 1
    /\ pc' = "eaisto"
    /\ UNCHANGED <<httpCount, lastResp, requested, gibdd_result, eaisto_result>>
    /\ Frame

\* eaisto_result = await make_eaisto_request(user_input, query_type)
Eaisto ==
    /\ pc = "eaisto"
    /\ \E o \in HttpOutcomes :
        LET r == make_eaisto_request(o)
        IN  /\ Http("eaisto", o)
            /\ eaisto_result' = IF r.kind = "exception" THEN eaisto_result ELSE r
            /\ pc' = IF r.kind = "exception" THEN "except" ELSE "reply"
    /\ UNCHANGED <<param_idx, gibdd_result, nsis_result>>
    /\ Frame

\* the consolidated reply, then user_data.clear(); a reply_text that raises
\* is caught by the except clause of process_query
Reply ==
    /\ pc = "reply"
    /\ \E delivered \in BOOLEAN :
        /\ sent' = Append(sent, Message("results", <<gibdd_result, nsis_result, eaisto_result>>, "main"))
        /\ user_data' = IF delivered THEN clear(user_data) ELSE user_data
        /\ event' = IF delivered THEN "replied" ELSE event
        /\ pc' = IF delivered THEN "idle" ELSE "except"
    /\ UNCHANGED <<text, user_input, query_type, param_idx, gibdd_result, nsis_result,
                   eaisto_result, httpCount, invoked, lastResp, requested, mode_before, checked,
                   verdict, env, phase>>

\* the except clause of process_query with user_data.clear() left inside the try
Except_without_clear ==
    /\ pc = "except"
    /\ \E delivered \in BOOLEAN :
        /\ sent' = Append(sent, Message("failure", <<>>, "main"))
        /\ event' = IF delivered THEN "failed" ELSE "aborted"
        /\ pc' = "idle"
    /\ UNCHANGED <<user_data, text, user_input, query_type, param_idx, gibdd_result, nsis_result,
                   eaisto_result, httpCount, invoked, lastResp, requested, mode_before, checked,
                   verdict, env, phase>>

\* the except clause of process_query, then user_data.clear(); a reply_text
\* that raises here leaves the handler before the clear
Except ==
    /\ pc = "except"
    /\ \E delivered \in BOOLEAN :
        /\ sent' = Append(sent, Message("failure", <<>>, "main"))
        /\ user_data' = IF delivered THEN clear(user_data) ELSE user_data
        /\ event' = IF delivered THEN "failed" ELSE "aborted"
        /\ pc' = "idle"
    /\ UNCHANGED <<text, user_input, query_type, param_idx, gibdd_result, nsis_result,
                   eaisto_result, httpCount, invoked, lastResp, requested, mode_before, checked,
                   verdict, env, phase>>

Next ==
    \/ HandleBack
    \/ HandleSelectPlate
    \/ HandleSelectVin
    \/ HandleAbout
    \/ HandleHint
    \/ ProcessQueryRejected
    \/ ProcessQueryBegin
    \/ GibddBase
    \/ GibddAdvancedAttempt
    \/ GibddAdvancedExhausted
    \/ NsisBase
    \/ NsisAdvancedAttempt
    \/ NsisAdvancedExhausted
    \/ Eaisto
    \/ Reply
    \/ Except

Spec == Init /\ [][Next]_vars

-----------------------------------------------------------------------------
(* The validators applied to generated inputs *)

InitValidate ==
    /\ user_data = EmptyDict
    /\ pc = "idle"
    /\ text \in ValidatorInputs
    /\ user_input = <<>>
    /\ query_type = "None"
    /\ param_idx = 1
    /\ gibdd_result = NoBlock
    /\ nsis_result = NoBlock
    /\ eaisto_result = NoBlock
    /\ httpCount = NoCalls
    /\ invoked = {}
    /\ lastResp = NoResponses
    /\ requested = NoQueries
    /\ sent = <<>>
    /\ event = "none"
    /\ mode_before = "None"
    /\ checked = "none"
    /\ verdict = FALSE
    /\ env = AllSet
    /\ phase = "polling"

CheckVin ==
    /\ checked = "none"
    /\ checked' = "vin"
    /\ verdict' = validate_vin(text)
    /\ UNCHANGED <<user_data, pc, text, user_input, query_type, param_idx, gibdd_result,
                   nsis_result, eaisto_result, httpCount, invoked, lastResp, requested, sent,
                   event, mode_before, env, phase>>

CheckPlate ==
    /\ checked = "none"
    /\ checked' = "plate"
    /\ verdict' = validate_license_plate(text)
    /\ UNCHANGED <<user_data, pc, text, user_input, query_type, param_idx, gibdd_result,
                   nsis_result, eaisto_result, httpCount, invoked, lastResp, requested, sent,
                   event, mode_before, env, phase>>

NextValidate == CheckVin \/ CheckPlate

SpecValidate == InitValidate /\ [][NextValidate]_vars

-----------------------------------------------------------------------------
(* Properties *)

\* the process_query of the last update got as far as its provider calls
Queried == invoked # {}

\* the handler of the last update has returned after a reply was delivered
Completed == pc = "idle" /\ event \in {"replied", "failed"}

ResultsMessages == { i \in 1..Len(sent) : sent[i].kind = "results" }

\* the body of a response from which provider p renders a success block
SuccessBodies(p) == IF p = "gibdd" THEN {"ok_a", "ok_empty"} ELSE {"ok_a"}

BlockIndex(p) == CASE p = "gibdd" -> 1 [] p = "nsis" -> 2 [] p = "eaisto" -> 3

\* C1: whatever each provider call produces, a query that started its
\* provider calls makes all three of them and composes one consolidated
\* reply holding exactly one block per provider, in the order GIBDD, NSIS,
\* EAISTO; the block of a provider answered with success is the success
\* block of that answer, whatever the other two produced.
C1_FailureIsolation ==
    /\ (Queried /\ pc \in {"reply", "idle"}) => invoked = Providers
    /\ (Queried /\ pc = "idle") => ResultsMessages # {}
    /\ \A i \in ResultsMessages :
        /\ Len(sent[i].blocks) = 3
        /\ \A p \in Providers :
            /\ sent[i].blocks[BlockIndex(p)].provider = p
            /\ (lastResp[p].exc = "none" /\ lastResp[p].status = 200
                    /\ lastResp[p].body \in SuccessBodies(p))
                => sent[i].blocks[BlockIndex(p)] = Block(p, "success", Fields(lastResp[p].body))

\* a VIN query answered: GIBDD success, NSIS and EAISTO timed out
C1_Witness ==
    /\ Completed
    /\ event = "replied"
    /\ query_type = "vin"
    /\ sent[2].blocks[1].kind = "success"
    /\ sent[2].blocks[2].kind = "timeout"
    /\ sent[2].blocks[3].kind = "timeout"

Accepts(m, s) == IF m = "vin" THEN validate_vin(s) ELSE validate_license_plate(s)

FormatError(m) == IF m = "vin" THEN "vin_format_error" ELSE "plate_format_error"

\* C2: when a mode is selected and the next update is a text, no caption,
\* that fails the mode's validator, handling it calls no provider, issues
\* no request, replies the mode's format error and leaves user_data as it
\* was.
C2_InvalidInputStays ==
    [][ ( /\ pc = "idle"
          /\ get(user_data, "mode") \in {"vin", "regnum"}
          /\ text' \notin Captions
          /\ ~Accepts(get(user_data, "mode"), str_strip(text')) )
        => ( /\ pc' = "idle"
             /\ user_data' = user_data
             /\ invoked' = {}
             /\ httpCount' = NoCalls
             /\ sent' = <<Message(FormatError(get(user_data, "mode")), <<>>, "back")>> ) ]_vars

\* a plate rejected in regnum mode, the mode still selected
C2_Witness ==
    /\ pc = "idle"
    /\ event = "rejected"
    /\ mode_before = "regnum"
    /\ get(user_data, "mode") = "regnum"
    /\ text = VinText
    /\ invoked = {}

\* C3 as stated: a plate query never invokes the registration-history
\* provider, a VIN query invokes all three.
C3_PlateSkipsRegistration ==
    /\ query_type = "regnum" => ("gibdd" \notin invoked /\ httpCount["gibdd"] = 0)
    /\ (Completed /\ query_type = "vin") => invoked = Providers

\* C3 amended: the providers queried do not depend on the identifier kind:
\* a VIN query and a plate query alike invoke all three clients, and each
\* of them has sent at least one request by the time the next one starts.
C3_AllProvidersBothKinds ==
    /\ (Queried /\ pc \in {"reply", "idle"}) =>
            (invoked = Providers /\ \A p \in Providers : httpCount[p] >= 1)
    /\ pc \in {"nsis", "eaisto"} => ("gibdd" \in invoked /\ httpCount["gibdd"] >= 1)
    /\ pc = "eaisto" => ("nsis" \in invoked /\ httpCount["nsis"] >= 1)

\* a plate query answered after requests to the registration-history provider
C3_Witness ==
    /\ Completed
    /\ query_type = "regnum"
    /\ "gibdd" \in invoked
    /\ httpCount["gibdd"] >= 1

\* C4 as stated: after the reply to a VIN query the session holds the
\* submitted identifier as lastIdentifier.
C4_VinKeepsLastIdentifier ==
    (Completed /\ event = "replied" /\ query_type = "vin")
        => ("lastIdentifier" \in DOMAIN user_data /\ user_data["lastIdentifier"] = user_input)

\* C4 amended: a VIN query keeps the mode "vin" in user_data while its
\* provider calls run, and once its reply is sent user_data is empty: the
\* session is back at the menu and holds no identifier.
C4_VinEndsCleared ==
    /\ (pc \notin {"idle"} /\ query_type = "vin") => user_data = setitem(EmptyDict, "mode", "vin")
    /\ (Completed /\ query_type = "vin") => user_data = EmptyDict

\* a VIN query answered, user_data empty
C4_Witness ==
    /\ Completed
    /\ event = "replied"
    /\ query_type = "vin"
    /\ mode_before = "vin"
    /\ user_input = VinText
    /\ user_data = EmptyDict

C6_BackClears ==
    [][ (pc = "idle" /\ text' = BackCaption)
        => ( /\ pc' = "idle"
             /\ user_data' = EmptyDict
             /\ invoked' = {}
             /\ httpCount' = NoCalls
             /\ event' = "back" ) ]_vars

\* the back caption handled while a VIN was awaited
C6_Witness ==
    /\ pc = "idle"
    /\ event = "back"
    /\ mode_before = "vin"
    /\ user_data = EmptyDict
    /\ invoked = {}

\* C7 as stated: each provider client issues at most one request per query.
C7_AtMostOneRequest == \A p \in Providers : httpCount[p] <= 1

\* C7 amended: in VIN mode every client issues at most one request; in
\* plate mode the GIBDD and NSIS clients issue at most one request per
\* entry of param_variants, five in all, the EAISTO client at most one; a
\* request that raises (timeout, connection failure) is the last one of
\* its call.
C7_RequestsPerCall ==
    /\ \A p \in Providers :
        httpCount[p] <= IF query_type = "regnum" /\ p \in {"gibdd", "nsis"}
                        THEN PlateAttempts ELSE 1
    /\ \A p \in {"gibdd", "nsis"} : pc = p => lastResp[p].exc = "none"

\* a plate query whose GIBDD client used all five parameter names
C7_Witness ==
    /\ query_type = "regnum"
    /\ httpCount["gibdd"] = PlateAttempts
    /\ gibdd_result.kind = "plate_failed"

Result(p) == CASE p = "gibdd" -> gibdd_result [] p = "nsis" -> nsis_result [] p = "eaisto" -> eaisto_result

\* C8: for every provider and query kind, a call whose request timed out
\* returns the timeout block, which no other outcome produces.
C8_TimeoutIsDistinct ==
    \A p \in Providers :
        Result(p) # NoBlock =>
            (lastResp[p].exc = "Timeout" <=> Result(p).kind = "timeout")

\* C9: validate_vin rejects every input whose length after strip() is not
\* 17 and accepts every input of exactly 17 alphanumeric characters.
C9_VinLengthRule ==
    checked = "vin" =>
        /\ Len(str_strip(text)) # VinLength => ~verdict
        /\ (Len(text) = VinLength /\ all_isalnum(text)) => verdict

\* C10: validate_license_plate accepts an input exactly when, with spaces
\* and hyphens removed, it has 7 to 9 characters, all alphanumeric.
C10_PlateRule ==
    checked = "plate" =>
        LET p == str_remove(str_remove(text, " "), "-")
        IN  verdict <=> ( /\ PlateMinLength <= Len(p)
                          /\ Len(p) <= PlateMaxLength
                          /\ all_isalnum(p) )

\* the Identifier invariant: a VIN is 17 alphanumeric characters in upper
\* case, a plate 7 to 9 alphanumeric characters without space or hyphen
IsIdentifier(kind, s) ==
    IF kind = "vin"
    THEN Len(s) = VinLength /\ all_isalnum(s) /\ str_upper(s) = s
    ELSE PlateMinLength <= Len(s) /\ Len(s) <= PlateMaxLength /\ all_isalnum(s)

\* C11: every query that process_query hands to a provider client and that
\* goes into a request URL satisfies the Identifier invariant of its mode.
C11_UpstreamIdentifier ==
    \A p \in Providers : requested[p] # <<>> => IsIdentifier(query_type, requested[p])

-----------------------------------------------------------------------------
(* The start of the process *)

InitStartup ==
    /\ user_data = EmptyDict
    /\ pc = "idle"
    /\ text = <<>>
    /\ user_input = <<>>
    /\ query_type = "None"
    /\ param_idx = 1
    /\ gibdd_result = NoBlock
    /\ nsis_result = NoBlock
    /\ eaisto_result = NoBlock
    /\ httpCount = NoCalls
    /\ invoked = {}
    /\ lastResp = NoResponses
    /\ requested = NoQueries
    /\ sent = <<>>
    /\ event = "none"
    /\ mode_before = "None"
    /\ checked = "none"
    /\ verdict = FALSE
    /\ env \in [Credentials -> EnvValues]
    /\ phase = "start"

Handlers == <<user_data, pc, text, user_input, query_type, param_idx, gibdd_result,
              nsis_result, eaisto_result, httpCount, invoked, lastResp, requested,
              sent, event, mode_before, checked, verdict>>

\* the module body of bot.py: load the settings, raise without BOT_TOKEN
ImportBot ==
    /\ phase = "start"
    /\ phase' = IF ~truthy(env["BOT_TOKEN"]) THEN "fatal" ELSE "imported"
    /\ UNCHANGED <<env, Handlers>>

\* main(): build the application and poll; an exception is logged and
\* main returns
Main ==
    /\ phase = "imported"
    /\ \E started \in BOOLEAN : phase' = IF started THEN "polling" ELSE "stopped"
    /\ UNCHANGED <<env, Handlers>>

NextStartup ==
    \/ ImportBot
    \/ Main
    \/ HandleBack
    \/ HandleSelectPlate
    \/ HandleSelectVin
    \/ HandleAbout
    \/ HandleHint
    \/ ProcessQueryRejected

SpecStartup == InitStartup /\ [][NextStartup]_vars

\* C12: with any of the four credentials missing the start fails: the
\* process never polls for updates and no update is handled.
C12_AllCredentialsRequired ==
    Config_validate(env) # "ok" => (phase # "polling" /\ event = "none")

====
